---------------------------- MODULE Spec2Model ----------------------------
(***************************************************************************)
(* Model of app.py: the StreamlitWebSocketHandler callbacks, the session   *)
(* runner run_voice_chat and the Streamlit controls that drive them, plus  *)
(* the three helpers translate_text, is_arabic and _extract_top_n_emotions.*)
(*                                                                         *)
(* A Python str is modelled as the sequence of its Unicode code points, a  *)
(* dict as a record (chat entries, whose key set matters) or, where the    *)
(* insertion order matters, as a sequence of <<key, value>> pairs.         *)
(***************************************************************************)
EXTENDS Integers, Sequences, FiniteSets, TLC

(***************************************************************************)
(* Bounds of the model.                                                    *)
(***************************************************************************)
MaxHistory  == 4    \* longest chat_history explored
MaxClock    == 2    \* last tick of the wall clock explored
MaxWorkers  == 2    \* thread slots (threads that can coexist)
MaxQueued   == 1    \* audio chunks queued on byte_strs
MaxEmotions == 4    \* longest prosody score mapping given to the ranker
MaxTextLen  == 10   \* longest text given to the language classifier

(***************************************************************************)
(* String literals of app.py, as code points.                              *)
(***************************************************************************)
\* app.py:63  "Connection established. You can start speaking now."
MSG_ESTABLISHED ==
    << 67, 111, 110, 110, 101, 99, 116, 105, 111, 110, 32, 101, 115, 116, 97, 98,
       108, 105, 115, 104, 101, 100, 46, 32, 89, 111, 117, 32, 99, 97, 110, 32,
       115, 116, 97, 114, 116, 32, 115, 112, 101, 97, 107, 105, 110, 103, 32, 110,
       111, 119, 46 >>

\* app.py:121  "Connection closed."
MSG_CLOSED ==
    << 67, 111, 110, 110, 101, 99, 116, 105, 111, 110, 32, 99, 108, 111, 115, 101,
       100, 46 >>

\* app.py:163  "Audio device not available. This is expected when running on cloud servers. Please run locally for voice input functionality."
MSG_NO_AUDIO_DEVICE ==
    << 65, 117, 100, 105, 111, 32, 100, 101, 118, 105, 99, 101, 32, 110, 111, 116,
       32, 97, 118, 97, 105, 108, 97, 98, 108, 101, 46, 32, 84, 104, 105, 115, 32,
       105, 115, 32, 101, 120, 112, 101, 99, 116, 101, 100, 32, 119, 104, 101, 110,
       32, 114, 117, 110, 110, 105, 110, 103, 32, 111, 110, 32, 99, 108, 111, 117,
       100, 32, 115, 101, 114, 118, 101, 114, 115, 46, 32, 80, 108, 101, 97, 115,
       101, 32, 114, 117, 110, 32, 108, 111, 99, 97, 108, 108, 121, 32, 102, 111,
       114, 32, 118, 111, 105, 99, 101, 32, 105, 110, 112, 117, 116, 32, 102, 117,
       110, 99, 116, 105, 111, 110, 97, 108, 105, 116, 121, 46 >>

\* app.py:39  "Translation unavailable"
TRANSLATION_UNAVAILABLE ==
    << 84, 114, 97, 110, 115, 108, 97, 116, 105, 111, 110, 32, 117, 110, 97, 118,
       97, 105, 108, 97, 98, 108, 101 >>

\* app.py:159  "querying device"
STR_QUERYING_DEVICE ==
    << 113, 117, 101, 114, 121, 105, 110, 103, 32, 100, 101, 118, 105, 99, 101 >>

\* app.py:159  "No Default Input Device Available"
STR_NO_DEFAULT_INPUT ==
    << 78, 111, 32, 68, 101, 102, 97, 117, 108, 116, 32, 73, 110, 112, 117, 116,
       32, 68, 101, 118, 105, 99, 101, 32, 65, 118, 97, 105, 108, 97, 98, 108, 101 >>

\* app.py:112  "Error ("
PFX_ERROR_CODE ==
    << 69, 114, 114, 111, 114, 32, 40 >>

\* app.py:112  "): "
SEP_ERROR_CODE ==
    << 41, 58, 32 >>

\* app.py:128  "Error: "
PFX_ERROR ==
    << 69, 114, 114, 111, 114, 58, 32 >>

\* app.py:178  "Connection error: "
PFX_CONNECTION_ERROR ==
    << 67, 111, 110, 110, 101, 99, 116, 105, 111, 110, 32, 101, 114, 114, 111, 114,
       58, 32 >>

\* app.py:169  "Audio error: "
PFX_AUDIO_ERROR ==
    << 65, 117, 100, 105, 111, 32, 101, 114, 114, 111, 114, 58, 32 >>

\* app.py:114  "Received error message from Hume websocket ("
PFX_RUNTIME_ERROR ==
    << 82, 101, 99, 101, 105, 118, 101, 100, 32, 101, 114, 114, 111, 114, 32, 109,
       101, 115, 115, 97, 103, 101, 32, 102, 114, 111, 109, 32, 72, 117, 109, 101,
       32, 119, 101, 98, 115, 111, 99, 107, 101, 116, 32, 40 >>

(***************************************************************************)
(* Python built-ins used by app.py, on code-point sequences.               *)
(***************************************************************************)
Min(a, b) == IF a <= b THEN a ELSE b

\* str.isspace for the code points below U+0900
IsSpace(c) == c \in {9, 10, 11, 12, 13, 28, 29, 30, 31, 32, 133, 160}

RECURSIVE LStrip(_)
LStrip(s) ==
    IF s # <<>> /\ IsSpace(Head(s)) THEN LStrip(Tail(s)) ELSE s

RECURSIVE RStrip(_)
RStrip(s) ==
    IF s # <<>> /\ IsSpace(s[Len(s)]) THEN RStrip(SubSeq(s, 1, Len(s) - 1)) ELSE s

\* str.strip()
strip(s) == RStrip(LStrip(s))

\* the test  sub in s  on strings
Contains(sub, s) ==
    \E i \in 1..(Len(s) - Len(sub) + 1) : SubSeq(s, i, i + Len(sub) - 1) = sub

\* str(n) of a non-negative int, as an f-string formats it
RECURSIVE Digits(_)
Digits(n) ==
    IF n < 10 THEN << 48 + n >> ELSE Append(Digits(n \div 10), 48 + (n % 10))

\* ''.join(parts)
RECURSIVE Join(_)
Join(parts) ==
    IF parts = <<>> THEN <<>> ELSE Head(parts) \o Join(Tail(parts))

\* Python truthiness of a list or a str: non-empty
Truthy(x) == x # <<>>

(***************************************************************************)
(* is_arabic (app.py:41-46).                                               *)
(***************************************************************************)
\* the character class [U+0600-U+06FF U+0750-U+077F U+08A0-U+08FF]
arabic_pattern(c) ==
    \/ c >= 1536 /\ c <= 1791
    \/ c >= 1872 /\ c <= 1919
    \/ c >= 2208 /\ c <= 2303

\* str.isalpha for ASCII and for U+0600..U+08FF: the runs of code points
\* whose general category is a letter category
AlphaRuns ==
    { <<65, 90>>, <<97, 122>>,
      <<1568, 1610>>, <<1646, 1647>>, <<1649, 1747>>, <<1749, 1749>>,
      <<1765, 1766>>, <<1774, 1775>>, <<1786, 1788>>, <<1791, 1791>>,
      <<1808, 1808>>, <<1810, 1839>>, <<1869, 1957>>, <<1969, 1969>>,
      <<1994, 2026>>, <<2036, 2037>>, <<2042, 2042>>, <<2048, 2069>>,
      <<2074, 2074>>, <<2084, 2084>>, <<2088, 2088>>, <<2112, 2136>>,
      <<2144, 2154>>, <<2160, 2183>>, <<2185, 2190>>, <<2208, 2249>> }

isalpha(c) == \E r \in AlphaRuns : c >= r[1] /\ c <= r[2]

\* A bug the classifier could have: the threshold taken inclusively.
is_arabic_inclusive(text) ==
    LET arabic_chars == Len(SelectSeq(text, arabic_pattern))
        total_chars  == Len(SelectSeq(text, isalpha))
    IN  total_chars > 0 /\ 10 * arabic_chars >= 3 * total_chars

\* arabic_chars / total_chars > 0.3 is a comparison of doubles; the quotient
\* of two ints below 2^53 is above the double 0.3 exactly when
\* 10 * arabic_chars > 3 * total_chars, which is how it is computed here.
is_arabic(text) ==
    LET arabic_chars == Len(SelectSeq(text, arabic_pattern))
        total_chars  == Len(SelectSeq(text, isalpha))
    IN  total_chars > 0 /\ 10 * arabic_chars > 3 * total_chars

(***************************************************************************)
(* translate_text (app.py:19-39).  The HTTP exchange is the environment's: *)
(* a response is                                                           *)
(*   raised      requests.get raised (timeout, network error)              *)
(*   status_code the status of the reply                                   *)
(*   json_ok     response.json() parses                                    *)
(*   result      the parsed body: a list whose first element is the list   *)
(*               of [translated, original, ...] items; None is <<>>        *)
(***************************************************************************)
RECURSIVE Fragments(_)
\* [item[0] for item in result[0] if item and item[0]]
Fragments(items) ==
    IF items = <<>> THEN <<>>
    ELSE LET item == Head(items)
         IN  IF Truthy(item) /\ Truthy(item[1])
             THEN << item[1] >> \o Fragments(Tail(items))
             ELSE Fragments(Tail(items))

translate_text(text, target_lang, response) ==
    IF ~response.raised /\ response.status_code = 200 /\ response.json_ok
       /\ Truthy(response.result) /\ Truthy(response.result[1])
    THEN strip(Join(Fragments(response.result[1])))
    ELSE TRANSLATION_UNAVAILABLE

(***************************************************************************)
(* _extract_top_n_emotions (app.py:131-133).  emotion_scores is the dict   *)
(* as its items in insertion order, each <<emotion, score>>.               *)
(***************************************************************************)
\* one step of a stable descending sort: item goes after every item whose
\* score is not below its own
InsertAfterTies(sorted, item) ==
    LET k == Cardinality({ i \in 1..Len(sorted) : sorted[i][2] >= item[2] })
    IN  SubSeq(sorted, 1, k) \o << item >> \o SubSeq(sorted, k + 1, Len(sorted))

InsertBeforeTies(sorted, item) ==
    LET k == Cardinality({ i \in 1..Len(sorted) : sorted[i][2] > item[2] })
    IN  SubSeq(sorted, 1, k) \o << item >> \o SubSeq(sorted, k + 1, Len(sorted))

RECURSIVE sorted_reversing_ties(_)
\* A bug the ranker could have: sorting ascending and reversing the list,
\* which turns the order of equal scores around.
sorted_reversing_ties(items) ==
    IF items = <<>> THEN <<>>
    ELSE InsertBeforeTies(sorted_reversing_ties(SubSeq(items, 1, Len(items) - 1)),
                          items[Len(items)])

RECURSIVE StableSortDesc(_)
StableSortDesc(items) ==
    IF items = <<>> THEN <<>>
    ELSE InsertAfterTies(StableSortDesc(SubSeq(items, 1, Len(items) - 1)),
                         items[Len(items)])

\* sorted(emotion_scores.items(), key=lambda item: item[1], reverse=True):
\* Python's sort is stable, also under reverse=True
sorted_emotions(items) == StableSortDesc(items)

extract_top_n_emotions(emotion_scores, n) ==
    SubSeq(sorted_emotions(emotion_scores), 1, Min(n, Len(emotion_scores)))


(***************************************************************************)
(* Inputs the environment can deliver.                                     *)
(***************************************************************************)
\* prosody scores of a message, scaled by ten: joy 0.9, anger 0.1, ...
SampleScores ==
    << <<"joy", 9>>, <<"anger", 1>>, <<"sadness", 5>>, <<"calm", 5>> >>

\* message.models.prosody is None (<<>>) or carries scores (<< scores >>)
\* "Hi " with prosody, and the Arabic word U+0645 U+0631 without
UserMessages ==
    { [type |-> "user_message", content |-> << 72, 105, 32 >>,
       prosody |-> << SampleScores >>],
      [type |-> "user_message", content |-> << 1605, 1585 >>,
       prosody |-> << >>] }

\* "Hi there!"
AssistantMessages ==
    { [type |-> "assistant_message",
       content |-> << 72, 105, 32, 116, 104, 101, 114, 101, 33 >>,
       prosody |-> << SampleScores >>] }

AudioMessages == { [type |-> "audio_output"] }

\* code 400, "bad request"
ErrorMessages ==
    { [type |-> "error", code |-> 400,
       message |-> << 98, 97, 100, 32, 114, 101, 113, 117, 101, 115, 116 >>] }

\* a kind on_message has no branch for
OtherMessages == { [type |-> "chat_metadata"] }

Messages ==
    UserMessages \cup AssistantMessages \cup AudioMessages
        \cup ErrorMessages \cup OtherMessages

\* replies of the translation endpoint: a timeout, a 500, a 200 whose body
\* is not JSON, a 200 with an empty body, and a 200 with two fragments
\* (" ok", "!") around a null item
Responses ==
    { [raised |-> TRUE,  status_code |-> 0,   json_ok |-> FALSE, result |-> << >>],
      [raised |-> FALSE, status_code |-> 500, json_ok |-> TRUE,  result |-> << >>],
      [raised |-> FALSE, status_code |-> 200, json_ok |-> FALSE, result |-> << >>],
      [raised |-> FALSE, status_code |-> 200, json_ok |-> TRUE,  result |-> << >>],
      [raised |-> FALSE, status_code |-> 200, json_ok |-> TRUE,
       result |-> << << << << 32, 111, 107 >>, << 72, 105 >> >>,
                        << >>,
                        << << 33 >>, << 32 >> >> >> >>] }

\* str(audio_error): "No Default Input Device Available", "Permission denied"
AudioErrors ==
    { STR_NO_DEFAULT_INPUT,
      << 80, 101, 114, 109, 105, 115, 115, 105, 111, 110, 32, 100, 101, 110,
         105, 101, 100 >> }

\* str(e) of a failed connect: "connect failed"
ConnectErrors ==
    { << 99, 111, 110, 110, 101, 99, 116, 32, 102, 97, 105, 108, 101, 100 >> }

\* str(error) of a channel error reported to on_error: "connection lost"
ChannelErrors ==
    { << 99, 111, 110, 110, 101, 99, 116, 105, 111, 110, 32, 108, 111, 115,
         116 >> }

Languages == { "auto", "en", "ar" }
Workers   == 1..MaxWorkers

(***************************************************************************)
(* State.                                                                  *)
(***************************************************************************)
VARIABLES
    has_handler,        \* 'websocket_handler' in st.session_state
    ss_input_language,  \* st.session_state.input_language
    input_language,     \* handler.input_language
    is_connected,       \* handler.is_connected
    chat_history,       \* handler.chat_history
    byte_strs,          \* number of chunks queued on handler.byte_strs
    chat_thread,        \* st.session_state.chat_thread: 0 when absent
    runner,             \* per thread slot, where run_voice_chat stands
    now,                \* datetime.datetime.now(tz=utc)
    ranker_call,        \* a call of _extract_top_n_emotions
    classifier_call     \* a call of is_arabic

handler_vars == << has_handler, input_language, is_connected, chat_history,
                   byte_strs >>
session_vars == << ss_input_language, chat_thread, runner, now >>
helper_vars  == << ranker_call, classifier_call >>
vars == << has_handler, ss_input_language, input_language, is_connected,
           chat_history, byte_strs, chat_thread, runner, now, ranker_call,
           classifier_call >>

NoEntry == [type |-> "none"]
NoError == << >>

\* a slot no thread occupies
IdleRunner ==
    [pc |-> "idle", resume |-> "idle", chat_entry |-> NoEntry,
     exc |-> NoError, close_calls |-> 0, audio_failed |-> FALSE]

\* threading.Thread.is_alive(): started and run_async_chat not yet returned
is_alive(w) == runner[w].pc \notin { "idle", "done" }

NoRankerCall     == [input |-> << >>, done |-> FALSE, output |-> << >>]
NoClassifierCall == [text |-> << >>, done |-> FALSE, result |-> FALSE]

\* main(), first run of the script: no handler, no thread, language 'auto'
SessionInit ==
    /\ has_handler = FALSE
    /\ ss_input_language = "auto"
    /\ input_language = "auto"
    /\ is_connected = FALSE
    /\ chat_history = << >>
    /\ byte_strs = 0
    /\ chat_thread = 0
    /\ runner = [w \in Workers |-> IdleRunner]
    /\ now = 0

Init ==
    /\ SessionInit
    /\ ranker_call = NoRankerCall
    /\ classifier_call = NoClassifierCall

(***************************************************************************)
(* The wall clock advances on its own; it is taken not to be set back      *)
(* while a session runs.                                                   *)
(***************************************************************************)
Tick ==
    /\ now < MaxClock
    /\ now' = now + 1
    /\ UNCHANGED << handler_vars, ss_input_language, chat_thread, runner,
                    helper_vars >>

(***************************************************************************)
(* Controls of main().  The model covers runs in which the three           *)
(* credentials are present (the script stops at line 317 otherwise).       *)
(***************************************************************************)
\* the language selectbox, lines 378-381
SetInputLanguage(selected_language) ==
    /\ selected_language # ss_input_language
    /\ ss_input_language' = selected_language
    /\ input_language' = IF has_handler THEN selected_language ELSE input_language
    /\ UNCHANGED << has_handler, is_connected, chat_history, byte_strs,
                    chat_thread, runner, now, helper_vars >>

\* the thread object a start creates occupies the lowest slot without a
\* live thread
FreeSlots == { w \in Workers : ~is_alive(w) }
NewSlot   == CHOOSE w \in FreeSlots : \A v \in FreeSlots : w <= v

StartedRunner == [IdleRunner EXCEPT !.pc = "connecting"]

\* A bug the start button could have: no is_alive() test.
StartVoiceChatUnguarded ==
    /\ FreeSlots # {}
    /\ has_handler' = TRUE
    /\ input_language' = ss_input_language
    /\ chat_thread' = NewSlot
    /\ runner' = [runner EXCEPT ![NewSlot] = StartedRunner]
    /\ UNCHANGED << ss_input_language, is_connected, chat_history, byte_strs,
                    now, helper_vars >>

\* the "Start Voice Chat" button, lines 384-398
StartVoiceChat ==
    /\ has_handler' = TRUE
    /\ input_language' = ss_input_language
    /\ IF chat_thread = 0 \/ ~is_alive(chat_thread)
       THEN /\ chat_thread' = NewSlot
            /\ runner' = [runner EXCEPT ![NewSlot] = StartedRunner]
       ELSE UNCHANGED << chat_thread, runner >>
    /\ UNCHANGED << ss_input_language, is_connected, chat_history, byte_strs,
                    now, helper_vars >>

\* A bug the new-chat button could have: taking the handler for closed.
NewChatDisconnecting ==
    /\ chat_history' = << >>
    /\ is_connected' = FALSE
    /\ UNCHANGED << has_handler, input_language, byte_strs, session_vars,
                    helper_vars >>

\* the "New Chat" button, lines 401-405
NewChat ==
    /\ chat_history' = IF has_handler THEN << >> ELSE chat_history
    /\ UNCHANGED << has_handler, input_language, is_connected, byte_strs,
                    session_vars, helper_vars >>

(***************************************************************************)
(* StreamlitWebSocketHandler (app.py:48-136).  The callbacks run on the    *)
(* event loop of the runner's thread, one at a time; translate_text blocks *)
(* that loop in requests.get, so a user message is handled in two steps    *)
(* between which only the controls and the clock can move.  The two reads  *)
(* of input_language in lines 74-77 are taken as one.                      *)
(***************************************************************************)
system_entry(timestamp, message) ==
    [timestamp |-> timestamp, type |-> "system", message |-> message]

error_entry(timestamp, message) ==
    [timestamp |-> timestamp, type |-> "error", message |-> message]

\* the emotions expression of lines 70 and 97
message_emotions(message) ==
    IF Truthy(message.prosody)
    THEN extract_top_n_emotions(message.prosody[1], 3)
    ELSE << >>

\* A bug the language choice could have: the preference ignored.
detect_language_ignoring_preference(preference, text) == is_arabic(text)

\* lines 74-77: detected_is_arabic
detect_language(preference, text) ==
    IF preference = "auto" THEN is_arabic(text) ELSE preference = "ar"

\* lines 70-86: the chat entry of a user message, before its translation
user_chat_entry(message, timestamp, preference) ==
    LET text == strip(message.content)
    IN  [timestamp |-> timestamp,
         type |-> "user",
         message |-> text,
         emotions |-> message_emotions(message),
         original_language |->
             IF detect_language(preference, text) THEN "arabic" ELSE "english"]

\* lines 89-92: the translation added under the key of the other language
translated_entry(chat_entry, response) ==
    IF chat_entry.original_language = "arabic"
    THEN chat_entry @@
           [english_translation |-> translate_text(chat_entry.message, "en", response)]
    ELSE chat_entry @@
           [arabic_translation |-> translate_text(chat_entry.message, "ar", response)]

\* f"Received error message from Hume websocket ({code}): {message}"
runtime_error(message) ==
    PFX_RUNTIME_ERROR \o Digits(message.code) \o SEP_ERROR_CODE \o message.message

\* A bug on_message could have: a last branch that records unknown kinds.
message_entries_recording_unknown(message, timestamp) ==
    IF message.type = "assistant_message"
    THEN << [timestamp |-> timestamp, type |-> "assistant",
             message |-> message.content,
             emotions |-> message_emotions(message)] >>
    ELSE IF message.type = "error"
    THEN << error_entry(timestamp,
                PFX_ERROR_CODE \o Digits(message.code) \o SEP_ERROR_CODE
                    \o message.message) >>
    ELSE IF message.type = "audio_output"
    THEN << >>
    ELSE << error_entry(timestamp, PFX_ERROR) >>

\* lines 96-113: what on_message appends at once, by kind of message
\* (nothing for a user message, whose entry waits for its translation)
message_entries(message, timestamp) ==
    IF message.type = "assistant_message"
    THEN << [timestamp |-> timestamp, type |-> "assistant",
             message |-> message.content,
             emotions |-> message_emotions(message)] >>
    ELSE IF message.type = "error"
    THEN << error_entry(timestamp,
                PFX_ERROR_CODE \o Digits(message.code) \o SEP_ERROR_CODE
                    \o message.message) >>
    ELSE << >>

\* the channel is open and the event loop is free to run a callback
Receiving(w) == runner[w].pc \in { "streaming", "sleeping" }

\* on_open, lines 58-64, called once the connect of line 144 succeeded;
\* the body of the with statement then awaits the microphone task
OnOpen(w) ==
    /\ runner[w].pc = "connecting"
    /\ Len(chat_history) < MaxHistory
    /\ is_connected' = TRUE
    /\ chat_history' = Append(chat_history, system_entry(now, MSG_ESTABLISHED))
    /\ runner' = [runner EXCEPT ![w].pc = "streaming"]
    /\ UNCHANGED << has_handler, input_language, byte_strs, ss_input_language,
                    chat_thread, now, helper_vars >>

\* on_message, lines 66-114, up to the call of translate_text for a user
\* message and to the end for the other kinds
OnMessage(w, message) ==
    /\ Receiving(w)
    /\ Len(chat_history) + Len(message_entries(message, now)) <= MaxHistory
    /\ chat_history' = chat_history \o message_entries(message, now)
    /\ byte_strs' = IF message.type = "audio_output" THEN byte_strs + 1 ELSE byte_strs
    /\ byte_strs' <= MaxQueued
    /\ runner' =
         IF message.type = "user_message"
         THEN [runner EXCEPT ![w].pc = "translating",
                             ![w].resume = runner[w].pc,
                             ![w].chat_entry =
                                 user_chat_entry(message, now, input_language)]
         ELSE IF message.type = "error"
         THEN [runner EXCEPT ![w].pc = "escalated",
                             ![w].exc = runtime_error(message)]
         ELSE runner
    /\ UNCHANGED << has_handler, input_language, is_connected,
                    ss_input_language, chat_thread, now, helper_vars >>

\* on_message, lines 89-94: translate_text returns and the entry is appended
TranslateReturn(w, response) ==
    /\ runner[w].pc = "translating"
    /\ Len(chat_history) < MaxHistory
    /\ chat_history' =
         Append(chat_history, translated_entry(runner[w].chat_entry, response))
    /\ runner' = [runner EXCEPT ![w].pc = runner[w].resume,
                                ![w].resume = "idle",
                                ![w].chat_entry = NoEntry]
    /\ UNCHANGED << has_handler, input_language, is_connected, byte_strs,
                    ss_input_language, chat_thread, now, helper_vars >>

\* A bug on_error could have: marking the handler disconnected.
OnErrorDisconnecting(w, error) ==
    /\ IF runner[w].pc = "escalated"
       THEN error = runner[w].exc
       ELSE Receiving(w) /\ error \in ChannelErrors
    /\ Len(chat_history) < MaxHistory
    /\ is_connected' = FALSE
    /\ chat_history' = Append(chat_history, error_entry(now, PFX_ERROR \o error))
    /\ runner' = [runner EXCEPT ![w].pc = "closing", ![w].exc = error]
    /\ UNCHANGED << has_handler, input_language, byte_strs,
                    ss_input_language, chat_thread, now, helper_vars >>

\* on_error, lines 124-129: the channel reports the exception on_message
\* raised, or an error of its own, and goes down
OnError(w, error) ==
    /\ IF runner[w].pc = "escalated"
       THEN error = runner[w].exc
       ELSE Receiving(w) /\ error \in ChannelErrors
    /\ Len(chat_history) < MaxHistory
    /\ chat_history' = Append(chat_history, error_entry(now, PFX_ERROR \o error))
    /\ runner' = [runner EXCEPT ![w].pc = "closing", ![w].exc = error]
    /\ UNCHANGED << has_handler, input_language, is_connected, byte_strs,
                    ss_input_language, chat_thread, now, helper_vars >>

\* on_close, lines 116-122, called as the channel goes down
OnClose(w) ==
    /\ runner[w].pc = "closing"
    /\ Len(chat_history) < MaxHistory
    /\ is_connected' = FALSE
    /\ chat_history' = Append(chat_history, system_entry(now, MSG_CLOSED))
    /\ runner' = [runner EXCEPT ![w].pc = "closed",
                                ![w].close_calls = runner[w].close_calls + 1]
    /\ UNCHANGED << has_handler, input_language, byte_strs, ss_input_language,
                    chat_thread, now, helper_vars >>

(***************************************************************************)
(* run_voice_chat and run_async_chat (app.py:138-189).  pc of a slot:      *)
(*   connecting  entering the with statement of line 144                   *)
(*   streaming   awaiting the microphone task, lines 153-155               *)
(*   translating inside translate_text, called from on_message             *)
(*   sleeping    in asyncio.sleep(1), line 172, after an audio error       *)
(*   escalated   on_message has raised into the channel, line 114          *)
(*   closing     leaving the with statement                                *)
(*   closed      the channel is down, the finally of line 180 is next      *)
(*   done        run_async_chat has returned, the thread is dead           *)
(*                                                                         *)
(* connect_with_callbacks belongs to the Hume client library.  What the    *)
(* runner relies on, and what is modelled of it: a connect that raises     *)
(* calls no callback; a connect that succeeds calls on_open and then       *)
(* delivers the events to on_message one at a time while the with          *)
(* statement is open; an exception raised by on_message or an error of the *)
(* channel may be reported to on_error; on_close is called once as the     *)
(* channel goes down; the exception may then leave the with statement.     *)
(* run_voice_chat itself calls none of the four callbacks.                 *)
(***************************************************************************)
\* lines 174-181 after a connect that raised: no callback has run
ConnectFail(w, e) ==
    /\ runner[w].pc = "connecting"
    /\ Len(chat_history) < MaxHistory
    /\ chat_history' =
         Append(chat_history, error_entry(now, PFX_CONNECTION_ERROR \o e))
    /\ runner' = [runner EXCEPT ![w].pc = "done", ![w].exc = e]
    /\ UNCHANGED << has_handler, input_language, is_connected, byte_strs,
                    ss_input_language, chat_thread, now, helper_vars >>

\* the message of lines 159-170
audio_error_message(error_msg) ==
    IF Contains(STR_QUERYING_DEVICE, error_msg)
       \/ Contains(STR_NO_DEFAULT_INPUT, error_msg)
    THEN MSG_NO_AUDIO_DEVICE
    ELSE PFX_AUDIO_ERROR \o error_msg

\* lines 156-172: the microphone task raised; one entry, then the sleep
AudioFail(w, error_msg) ==
    /\ runner[w].pc = "streaming"
    /\ Len(chat_history) < MaxHistory
    /\ chat_history' =
         Append(chat_history, error_entry(now, audio_error_message(error_msg)))
    /\ runner' = [runner EXCEPT ![w].pc = "sleeping", ![w].audio_failed = TRUE]
    /\ UNCHANGED << has_handler, input_language, is_connected, byte_strs,
                    ss_input_language, chat_thread, now, helper_vars >>

\* line 172 returns after its second and the with statement is left
SleepDone(w) ==
    /\ runner[w].pc = "sleeping"
    /\ runner' = [runner EXCEPT ![w].pc = "closing"]
    /\ UNCHANGED << handler_vars, ss_input_language, chat_thread, now,
                    helper_vars >>

\* lines 153-155 return: the microphone task ended without an exception
MicrophoneDone(w) ==
    /\ runner[w].pc = "streaming"
    /\ runner' = [runner EXCEPT ![w].pc = "closing"]
    /\ UNCHANGED << handler_vars, ss_input_language, chat_thread, now,
                    helper_vars >>

\* the exception of line 114 ends the channel without a call of on_error
Unwind(w) ==
    /\ runner[w].pc = "escalated"
    /\ runner' = [runner EXCEPT ![w].pc = "closing"]
    /\ UNCHANGED << handler_vars, ss_input_language, chat_thread, now,
                    helper_vars >>

\* the microphone interface plays a chunk of byte_strs, line 154
PlayAudio(w) ==
    /\ runner[w].pc = "streaming"
    /\ byte_strs > 0
    /\ byte_strs' = byte_strs - 1
    /\ UNCHANGED << has_handler, input_language, is_connected, chat_history,
                    session_vars, helper_vars >>

\* lines 180-189 with no exception pending: the thread ends
RunnerReturn(w) ==
    /\ runner[w].pc = "closed"
    /\ runner' = [runner EXCEPT ![w].pc = "done"]
    /\ UNCHANGED << handler_vars, ss_input_language, chat_thread, now,
                    helper_vars >>

\* lines 174-189 with the channel's exception leaving the with statement
RunnerExcept(w) ==
    /\ runner[w].pc = "closed"
    /\ runner[w].exc # NoError
    /\ Len(chat_history) < MaxHistory
    /\ chat_history' =
         Append(chat_history,
                error_entry(now, PFX_CONNECTION_ERROR \o runner[w].exc))
    /\ runner' = [runner EXCEPT ![w].pc = "done"]
    /\ UNCHANGED << has_handler, input_language, is_connected, byte_strs,
                    ss_input_language, chat_thread, now, helper_vars >>

(***************************************************************************)
(* Spec: the whole session.  Every control, callback and runner step, with *)
(* one user message and the clock standing still.                          *)
(***************************************************************************)
SessionMessages ==
    { m \in Messages : m.type = "user_message" => Truthy(m.prosody) }

Next ==
    \/ \E l \in Languages : SetInputLanguage(l)
    \/ StartVoiceChat
    \/ NewChat
    \/ \E w \in Workers : OnOpen(w)
    \/ \E w \in Workers, m \in SessionMessages : OnMessage(w, m)
    \/ \E w \in Workers, r \in Responses : TranslateReturn(w, r)
    \/ \E w \in Workers : \E e \in ChannelErrors \cup { runner[w].exc } : OnError(w, e)
    \/ \E w \in Workers : OnClose(w)
    \/ \E w \in Workers, e \in ConnectErrors : ConnectFail(w, e)
    \/ \E w \in Workers, e \in AudioErrors : AudioFail(w, e)
    \/ \E w \in Workers : SleepDone(w)
    \/ \E w \in Workers : MicrophoneDone(w)
    \/ \E w \in Workers : Unwind(w)
    \/ \E w \in Workers : PlayAudio(w)
    \/ \E w \in Workers : RunnerReturn(w)
    \/ \E w \in Workers : RunnerExcept(w)

Spec == Init /\ [][Next]_vars

(***************************************************************************)
(* SpecTimed: the callbacks of sessions that connect and whose audio       *)
(* works, under a clock that advances, with the controls left alone after  *)
(* the start.                                                              *)
(***************************************************************************)
NextTimed ==
    \/ Tick
    \/ StartVoiceChat
    \/ \E w \in Workers : OnOpen(w)
    \/ \E w \in Workers, m \in SessionMessages : OnMessage(w, m)
    \/ \E w \in Workers, r \in Responses : TranslateReturn(w, r)
    \/ \E w \in Workers : \E e \in ChannelErrors \cup { runner[w].exc } : OnError(w, e)
    \/ \E w \in Workers : OnClose(w)
    \/ \E w \in Workers : MicrophoneDone(w)
    \/ \E w \in Workers : Unwind(w)
    \/ \E w \in Workers : PlayAudio(w)
    \/ \E w \in Workers : RunnerReturn(w)

SpecTimed == Init /\ [][NextTimed]_vars

(***************************************************************************)
(* SpecSpeech: user speech in both languages under every preference and    *)
(* every reply of the translation endpoint.                                *)
(***************************************************************************)
NextSpeech ==
    \/ \E l \in Languages : SetInputLanguage(l)
    \/ StartVoiceChat
    \/ NewChat
    \/ \E w \in Workers : OnOpen(w)
    \/ \E w \in Workers, m \in UserMessages : OnMessage(w, m)
    \/ \E w \in Workers, r \in Responses : TranslateReturn(w, r)
    \/ \E w \in Workers : OnClose(w)
    \/ \E w \in Workers : MicrophoneDone(w)
    \/ \E w \in Workers : RunnerReturn(w)

SpecSpeech == Init /\ [][NextSpeech]_vars

(***************************************************************************)
(* SpecRanker: _extract_top_n_emotions called once, with n = 3 as on_message*)
(* calls it, on every score mapping of at most MaxEmotions emotions.       *)
(***************************************************************************)
Emotions == { "joy", "anger", "sadness", "calm", "fear" }
Scores   == { 1, 5, 9 }

\* dicts: no emotion twice
RankerInputs ==
    { s \in UNION { [1..k -> Emotions \X Scores] : k \in 0..MaxEmotions } :
        \A i, j \in 1..Len(s) : i # j => s[i][1] # s[j][1] }

InitRanker ==
    /\ SessionInit
    /\ classifier_call = NoClassifierCall
    /\ \E s \in RankerInputs :
         ranker_call = [input |-> s, done |-> FALSE, output |-> << >>]

Rank ==
    /\ ~ranker_call.done
    /\ ranker_call' =
         [ranker_call EXCEPT !.done = TRUE,
                             !.output = extract_top_n_emotions(ranker_call.input, 3)]
    /\ UNCHANGED << handler_vars, session_vars, classifier_call >>

SpecRanker == InitRanker /\ [][Rank]_vars

(***************************************************************************)
(* SpecClassifier: is_arabic called once, on every text of at most         *)
(* MaxTextLen characters made of runs of the characters below.             *)
(***************************************************************************)
\* a, space, U+0628 (letter), U+0663 (digit, in the first range),
\* U+074F (letter, just below the second range), U+0750 (letter),
\* U+08A0 (letter)
ClassifierChars == << 97, 32, 1576, 1635, 1871, 1872, 2208 >>

Run(c, n) == [i \in 1..n |-> c]

RECURSIVE RunTexts(_, _)
RunTexts(i, budget) ==
    IF i > Len(ClassifierChars) THEN { << >> }
    ELSE UNION { { Run(ClassifierChars[i], k) \o t : t \in RunTexts(i + 1, budget - k) } :
                 k \in 0..budget }

ClassifierInputs ==
    RunTexts(1, MaxTextLen) \cup { strip(m.content) : m \in UserMessages }

InitClassifier ==
    /\ SessionInit
    /\ ranker_call = NoRankerCall
    /\ \E t \in ClassifierInputs :
         classifier_call = [text |-> t, done |-> FALSE, result |-> FALSE]

Classify ==
    /\ ~classifier_call.done
    /\ classifier_call' =
         [classifier_call EXCEPT !.done = TRUE,
                                 !.result = is_arabic(classifier_call.text)]
    /\ UNCHANGED << handler_vars, session_vars, ranker_call >>

SpecClassifier == InitClassifier /\ [][Classify]_vars

(***************************************************************************)
(* Properties.                                                             *)
(***************************************************************************)
Last(h) == h[Len(h)]

\* this step appends one entry of the given type and touches no other
AppendsOne(type) ==
    /\ Len(chat_history') = Len(chat_history) + 1
    /\ SubSeq(chat_history', 1, Len(chat_history)) = chat_history
    /\ Last(chat_history').type = type

Types(h) == [i \in 1..Len(h) |-> h[i].type]

TimestampsNonDecreasing ==
    \A i \in 1..(Len(chat_history) - 1) :
        chat_history[i].timestamp <= chat_history[i + 1].timestamp

C1_EventEffect ==
    \A w \in Workers :
        /\ OnOpen(w) => AppendsOne("system")
        /\ OnClose(w) => AppendsOne("system")
        /\ (\E e \in ChannelErrors \cup { runner[w].exc } : OnError(w, e))
               => AppendsOne("error")
        /\ (\E r \in Responses : TranslateReturn(w, r)) => AppendsOne("user")
        /\ \A m \in Messages :
               OnMessage(w, m) =>
                   IF m.type = "assistant_message" THEN AppendsOne("assistant")
                   ELSE IF m.type = "error" THEN AppendsOne("error")
                   ELSE chat_history' = chat_history

\* C1: with no reset in between, every on_open, user message, assistant
\* message, error message, on_close and on_error appends exactly one entry at
\* the end of the transcript, an audio chunk or a message of unknown kind
\* appends none, no entry already there is changed or removed, and the
\* timestamps never decrease along the transcript.
C1_TranscriptGrowsInOrder ==
    [](TimestampsNonDecreasing) /\ [][C1_EventEffect]_vars

\* a session that handled an audio chunk and produced, at increasing times,
\* one entry of each type
C1_Witness ==
    /\ Types(chat_history) = << "system", "user", "assistant", "error" >>
    /\ chat_history[1].timestamp < chat_history[2].timestamp
    /\ chat_history[2].timestamp < chat_history[4].timestamp
    /\ byte_strs = 1

\* C2: whichever way run_voice_chat ends, on_close has been called exactly
\* once by then.
C2_CloseCalledOnce ==
    \A w \in Workers : runner[w].pc = "done" => runner[w].close_calls = 1

\* C4: once the audio capture has failed, and with no error on the channel,
\* the runner stays inside the connection: it neither closes the channel
\* nor ends.
C4_AudioFailureKeepsChannel ==
    \A w \in Workers :
        runner[w].audio_failed /\ runner[w].exc = NoError
            => runner[w].pc \in { "sleeping", "translating" }
               /\ runner[w].close_calls = 0

\* C5: at most one thread running run_voice_chat is alive, and it is the one
\* the session state refers to.
C5_SingleRunner ==
    /\ Cardinality({ w \in Workers : is_alive(w) }) <= 1
    /\ \A w \in Workers : is_alive(w) => chat_thread = w

\* a second session running after the first has ended
C5_Witness ==
    /\ \E w \in Workers : is_alive(w)
    /\ \E i, j \in 1..Len(chat_history) :
          /\ i < j
          /\ chat_history[i].message = MSG_CLOSED
          /\ chat_history[j].message = MSG_ESTABLISHED

\* is_connected agrees with the last "opened"/"closed" entry of the
\* transcript, when there is one
ConnectedMatchesTranscript ==
    LET S == { i \in 1..Len(chat_history) : chat_history[i].type = "system" }
    IN  S # {} =>
          LET k == CHOOSE i \in S : \A j \in S : j <= i
          IN  is_connected <=> chat_history[k].message = MSG_ESTABLISHED

C6_ConnectedStep ==
    IF \E w \in Workers : OnOpen(w) THEN is_connected'
    ELSE IF \E w \in Workers : OnClose(w) THEN ~is_connected'
    ELSE is_connected' = is_connected

\* C6: is_connected is false before any callback, on_open makes it true,
\* on_close makes it false and no other operation changes it, so that it is
\* true exactly when the latest of the on_open and on_close calls was an
\* on_open; after on_open, a user message, an assistant message and on_close
\* the transcript is system, user, assistant, system and is_connected false.
C6_ConnectedFollowsOpenClose ==
    /\ [](~has_handler => ~is_connected)
    /\ [](ConnectedMatchesTranscript)
    /\ [][C6_ConnectedStep]_vars

C6_Witness ==
    /\ Types(chat_history) = << "system", "user", "assistant", "system" >>
    /\ chat_history[1].message = MSG_ESTABLISHED
    /\ chat_history[4].message = MSG_CLOSED
    /\ ~is_connected

\* C7: New Chat leaves the transcript empty, whatever it held, and changes
\* nothing else: not is_connected, not the language preference, not the
\* audio queue, not the running thread.
C7_NewChatOnlyClears ==
    [][NewChat =>
          /\ chat_history' = << >>
          /\ UNCHANGED << has_handler, input_language, ss_input_language,
                          is_connected, byte_strs, chat_thread, runner >>]_vars

\* the transcript emptied under a connected handler whose thread is alive
C7_Witness ==
    /\ chat_history = << >>
    /\ is_connected
    /\ \E w \in Workers : is_alive(w)

TranslationKeys(entry) ==
    (DOMAIN entry) \cap { "english_translation", "arabic_translation" }

\* the key of the translation into the other language
OtherLanguageKey(language) ==
    IF language = "arabic" THEN "english_translation" ELSE "arabic_translation"

\* the call timed out or met a network error, the status is not 200, or the
\* body is not the JSON list of fragment lists
TranslationFailed(r) ==
    \/ r.raised
    \/ r.status_code # 200
    \/ ~r.json_ok
    \/ r.result = << >>

\* the user entry is appended with the text of the message, and on_message
\* returns to the event loop without raising
UserEntryRecorded(w) ==
    /\ AppendsOne("user")
    /\ Last(chat_history').message = runner[w].chat_entry.message
    /\ runner'[w].pc \in { "streaming", "sleeping" }

\* C3: when the translation fails, on_message raises nothing and
\* appends one user entry with the message text and with no translation key.
C3_NoTranslationField ==
    [][\A w \in Workers, r \in Responses :
          TranslateReturn(w, r) /\ TranslationFailed(r) =>
              /\ UserEntryRecorded(w)
              /\ TranslationKeys(Last(chat_history')) = {}]_vars

\* What on_message does instead: the entry carries one translation key,
\* that of the other language, holding "Translation unavailable".
TranslationFailureStoresSentinel ==
    [][\A w \in Workers, r \in Responses :
          TranslateReturn(w, r) /\ TranslationFailed(r) =>
              /\ UserEntryRecorded(w)
              /\ LET entry == Last(chat_history')
                     key   == OtherLanguageKey(entry.original_language)
                 IN  /\ TranslationKeys(entry) = { key }
                     /\ entry[key] = TRANSLATION_UNAVAILABLE]_vars

PreferredLanguage(preference, text) ==
    IF preference = "auto"
    THEN IF is_arabic(text) THEN "arabic" ELSE "english"
    ELSE IF preference = "ar" THEN "arabic" ELSE "english"

C8_LanguageStep ==
    \A w \in Workers :
        /\ \A m \in UserMessages :
               OnMessage(w, m) =>
                   /\ runner'[w].chat_entry.original_language
                          = PreferredLanguage(input_language, strip(m.content))
                   /\ chat_history' = chat_history
        /\ \A r \in Responses :
               TranslateReturn(w, r) =>
                   /\ AppendsOne("user")
                   /\ Last(chat_history').original_language
                          = runner[w].chat_entry.original_language
                   /\ TranslationKeys(Last(chat_history'))
                          = { OtherLanguageKey(runner[w].chat_entry.original_language) }
        /\ \A l \in Languages :
               SetInputLanguage(l) =>
                   /\ chat_history' = chat_history
                   /\ runner'[w].chat_entry = runner[w].chat_entry

Position(items, item) == CHOOSE k \in 1..Len(items) : items[k] = item

Range(f) == { f[i] : i \in DOMAIN f }

C9_RankedOutput(input, output) ==
    /\ Len(output) = Min(3, Len(input))
    /\ Range(output) \subseteq Range(input)
    /\ \A i, j \in 1..Len(output) :
          i < j =>
            /\ output[i] # output[j]
            /\ output[i][2] >= output[j][2]
            /\ output[i][2] = output[j][2]
                 => Position(input, output[i]) < Position(input, output[j])
    /\ \A k \in 1..Len(input) :
          input[k] \notin Range(output) =>
            \A i \in 1..Len(output) :
                /\ input[k][2] <= output[i][2]
                /\ input[k][2] = output[i][2] => Position(input, output[i]) < k
    /\ input = << >> => output = << >>

\* C9: with n = 3 the ranker returns min(3, size) items of its input, scores
\* unchanged, in descending order of score; no item left out scores higher
\* than a returned one; items of equal score keep the order of the input,
\* the earlier ones being the ones kept; the empty mapping gives the empty
\* mapping.
C9_TopThreeStable ==
    ranker_call.done => C9_RankedOutput(ranker_call.input, ranker_call.output)

\* the mapping joy 0.9, anger 0.1, sadness 0.5, calm 0.5
C9_Witness ==
    /\ ranker_call.done
    /\ ranker_call.input = SampleScores
    /\ ranker_call.output = << <<"joy", 9>>, <<"sadness", 5>>, <<"calm", 5>> >>

ArabicCount(text) ==
    Cardinality({ i \in 1..Len(text) :
                    \/ text[i] \in 1536..1791
                    \/ text[i] \in 1872..1919
                    \/ text[i] \in 2208..2303 })

AlphaCount(text) == Cardinality({ i \in 1..Len(text) : isalpha(text[i]) })

\* C10: is_arabic is true exactly when the text has an alphabetic character
\* and its characters of the three Arabic ranges number strictly more than
\* 30% of its alphabetic characters; in particular it is false at exactly
\* 30%, for a text with no alphabetic character and for the empty text.
C10_ArabicAboveThirtyPercent ==
    classifier_call.done =>
        LET text == classifier_call.text
        IN  /\ classifier_call.result
                 <=> /\ AlphaCount(text) >= 1
                     /\ 10 * ArabicCount(text) > 3 * AlphaCount(text)
            /\ 10 * ArabicCount(text) = 3 * AlphaCount(text)
                 => ~classifier_call.result
            /\ AlphaCount(text) = 0 => ~classifier_call.result
            /\ text = << >> => ~classifier_call.result

\* three Arabic letters among ten letters: exactly 30%, not Arabic
C10_Witness ==
    /\ classifier_call.done
    /\ ~classifier_call.result
    /\ AlphaCount(classifier_call.text) = 10
    /\ ArabicCount(classifier_call.text) = 3

====
